---- MODULE Spec2Model ----
(***************************************************************************)
(* Model of baseline_agents/coder_utils.py: the response parser            *)
(* (CustomOutputParser.parse), the one-shot code execution tool            *)
(* (CustomPythonAstREPLTool._run), the dataset loader                      *)
(* (load_data_to_coder_globals) and the agent loop that create_agent wires *)
(* around them.                                                            *)
(*                                                                         *)
(* Python strings are sequences of one-character strings, so that split,   *)
(* strip, lower, startswith and the two regular expressions are computed   *)
(* character by character as the interpreter computes them.                *)
(***************************************************************************)
EXTENDS Integers, Sequences, FiniteSets

VARIABLES
    pc,           \* position of the driver: "llm", "parse", "act", "tool", "finished", "failed"
    llm_output,   \* the model text handed to parse
    parsed,       \* what parse returned or raised for llm_output
    max_turns,    \* CustomPythonAstREPLTool.max_turns of the one tool instance
    module_globals, \* globals() of coder_utils: name -> bound value
    loaded,       \* the table_dict given to load_data_to_coder_globals, NoTables before
    sys_stdout,   \* where sys.stdout points
    sys_stderr,   \* where sys.stderr points
    log_stream,   \* logging.getLogger().handlers[0].stream
    last,         \* record of the most recent _run call (NoCall before the first)
    prev_raised,  \* how the code of the call before the most recent one ended
    n_calls,      \* number of _run calls made on the tool instance
    n_exec        \* number of exec() calls performed by _run

vars == <<pc, llm_output, parsed, max_turns, module_globals, loaded,
          sys_stdout, sys_stderr, log_stream, last, prev_raised, n_calls, n_exec>>

----------------------------------------------------------------------------
(* Literals of the source. *)

\* the grave accent character, which a TLA+ string cannot hold
BackTick == "<backtick>"

MAX_TURNS == 1

FinalAnswerMarker ==
    <<"F","i","n","a","l"," ","A","n","s","w","e","r",":">>

CouldNotParse ==
    <<"C","o","u","l","d"," ","n","o","t"," ","p","a","r","s","e"," ","L","L","M"," ","o","u","t","p",
       "u","t",":"," ",BackTick>>

GateMessage ==
    <<"Y","o","u"," ","c","a","n","n","o","t"," ","r","u","n"," ","t","h","e"," ","c","o","d","e"," ",
       "m","o","r","e"," ","t","h","a","n"," ","o","n","c","e"," ","-"," ","y","o","u"," ","h","a","v",
       "e"," ","a","l","r","e","a","d","y"," ","r","u","n"," ","i","t"," ","e","a","r","l","i","e","r",
       "."," ","P","l","e","a","s","e"," ","p","r","o","v","i","d","e"," ","t","h","e"," ","\"","F",
       "i","n","a","l"," ","A","n","s","w","e","r",":","\""," ","i","m","m","e","d","i","a","t","e",
       "l","y"," ","a","f","t","e","r"," ","\"","T","h","o","u","g","h","t",":","\"",","," ","b","a",
       "s","e","d"," ","o","n"," ","w","h","a","t","e","v","e","r"," ","i","n","f","o","r","m","a","t",
       "i","o","n"," ","y","o","u"," ","g","o","t"," ","t","i","l","l"," ","n","o","w","."," ","D","o",
       " ","n","o","t"," ","a","t","t","e","m","p","t"," ","t","o"," ","o","u","t","p","u","t"," ","a",
       "n"," ","\"","A","c","t","i","o","n",":","\""," ","o","r"," ","r","u","n"," ","t","h","e"," ",
       "c","o","d","e"," ","a","g","a","i","n",".">>

NoOutputMessage ==
    <<"E","x","e","c","u","t","i","o","n"," ","c","o","m","p","l","e","t","e","d"," ","w","i","t","h",
       "o","u","t"," ","o","u","t","p","u","t",".">>

ImportPandas ==
    <<"i","m","p","o","r","t"," ","p","a","n","d","a","s"," ","a","s"," ","p","d","\n">>

Fence == <<BackTick, BackTick, BackTick>>

TripleQuote == <<"\"","\"","\"">>

PythonTag == <<"p","y","t","h","o","n">>

ActionLit == <<"A","c","t","i","o","n">>

NewlineActionLit == <<"\n","A","c","t","i","o","n">>

InputLit == <<"I","n","p","u","t">>

ColonLit == <<":">>

BoolSpellings ==
    { <<"t","r","u","e">>, <<"f","a","l","s","e">>, <<"y","e","s">>, <<"n","o">>, <<"y">>, <<"n">> }

TruthySpellings_NoTrue == { <<"y","e","s">>, <<"y">> }

TruthySpellings == { <<"t","r","u","e">>, <<"y","e","s">>, <<"y">> }

----------------------------------------------------------------------------
(* Python str primitives. *)

Whitespace == {" ", "\n", "\t"}

Digits == {"0","1","2","3","4","5","6","7","8","9"}

UpperLetters ==
    <<"A","B","C","D","E","F","G","H","I","J","K","L","M","N","O","P","Q","R","S","T","U","V","W","X","Y","Z">>

LowerLetters ==
    <<"a","b","c","d","e","f","g","h","i","j","k","l","m","n","o","p","q","r","s","t","u","v","w","x","y","z">>

SetMin(S) == CHOOSE x \in S : \A y \in S : x <= y

SetMax(S) == CHOOSE x \in S : \A y \in S : x >= y

\* s[i:] with a 1-based i
From(s, i) == SubSeq(s, i, Len(s))

\* s[i:i+len(p)] == p
LitAt(s, i, p) == i >= 1 /\ i + Len(p) - 1 <= Len(s) /\ SubSeq(s, i, i + Len(p) - 1) = p

StartsWith(s, p) == LitAt(s, 1, p)

EndsWith(s, p) == Len(p) <= Len(s) /\ LitAt(s, Len(s) - Len(p) + 1, p)

\* the positions at or after i where p occurs in s
FindFrom(s, p, i) == { j \in i..Len(s) : LitAt(s, j, p) }

\* p in s
Contains(s, p) == FindFrom(s, p, 1) # {}

\* the first position at or after i whose character is not in chars (Len(s)+1 when none)
SkipWhile(s, i, chars) == SetMin({ j \in i..(Len(s) + 1) : j = Len(s) + 1 \/ s[j] \notin chars })

\* the last position at or before i whose character is not in chars (0 when none)
SkipBack(s, i, chars) == SetMax({ j \in 0..i : j = 0 \/ s[j] \notin chars })

LStripChars(s, chars) == From(s, SkipWhile(s, 1, chars))

RStripChars(s, chars) == SubSeq(s, 1, SkipBack(s, Len(s), chars))

\* str.strip(chars)
StripChars(s, chars) == RStripChars(LStripChars(s, chars), chars)

\* str.lstrip(), str.rstrip(), str.strip()
LStrip(s) == LStripChars(s, Whitespace)

RStrip(s) == RStripChars(s, Whitespace)

Strip(s) == StripChars(s, Whitespace)

LowerChar(c) ==
    IF \E k \in 1..26 : UpperLetters[k] = c
    THEN LowerLetters[CHOOSE k \in 1..26 : UpperLetters[k] = c]
    ELSE c

\* str.lower()
Lower(s) == [k \in 1..Len(s) |-> LowerChar(s[k])]

\* str.split(sep): the parts between the non-overlapping occurrences of sep, left to right
RECURSIVE Split(_, _)
Split(s, sep) ==
    IF ~Contains(s, sep)
    THEN <<s>>
    ELSE LET k == SetMin(FindFrom(s, sep, 1))
         IN  <<SubSeq(s, 1, k - 1)>> \o Split(From(s, k + Len(sep)), sep)

\* str.split(): the maximal runs of non-whitespace characters
RECURSIVE SplitWS(_)
SplitWS(s) ==
    LET b == SkipWhile(s, 1, Whitespace)
    IN  IF b > Len(s)
        THEN << >>
        ELSE LET e == SetMin({ j \in b..(Len(s) + 1) : j = Len(s) + 1 \/ s[j] \in Whitespace })
             IN  <<SubSeq(s, b, e - 1)>> \o SplitWS(From(s, e))

----------------------------------------------------------------------------
(* CustomOutputParser.parse *)

\* \s*\d*\s* starting at i: the position after it (greedy; what follows is never \s or \d)
SkipWsDigitsWs(s, i) ==
    SkipWhile(s, SkipWhile(s, SkipWhile(s, i, Whitespace), Digits), Whitespace)

\* Action\s*\d*\s*: at i: the position after the colon, 0 when it does not match
ActionHeadEnd(s, i) ==
    IF ~LitAt(s, i, ActionLit) THEN 0
    ELSE LET k == SkipWsDigitsWs(s, i + Len(ActionLit))
         IN  IF LitAt(s, k, ColonLit) THEN k + 1 ELSE 0

\* \nAction\s*\d*\s*Input\s*\d*\s*: at j: the position after the colon, 0 when no match
ActionInputEnd(s, j) ==
    IF ~LitAt(s, j, NewlineActionLit) THEN 0
    ELSE LET k == SkipWsDigitsWs(s, j + Len(NewlineActionLit))
         IN  IF ~LitAt(s, k, InputLit) THEN 0
             ELSE LET k2 == SkipWsDigitsWs(s, k + Len(InputLit))
                  IN  IF LitAt(s, k2, ColonLit) THEN k2 + 1 ELSE 0

\* the positions j >= from where the Action Input part of the pattern matches
ActionInputStarts(s, from) == { j \in from..Len(s) : ActionInputEnd(s, j) # 0 }

\* re.search(regex, llm_output, re.DOTALL): leftmost start; group 1 lazy; [\s]* greedy;
\* group 2 runs to the end of the string
ActionRegexSearch(s) ==
    LET starts == { i \in 1..Len(s) :
                      /\ ActionHeadEnd(s, i) # 0
                      /\ ActionInputStarts(s, ActionHeadEnd(s, i)) # {} }
    IN  IF starts = {}
        THEN [matched |-> FALSE, group1 |-> << >>, group2 |-> << >>]
        ELSE LET i  == SetMin(starts)
                 g1 == ActionHeadEnd(s, i)
                 j  == SetMin(ActionInputStarts(s, g1))
                 g2 == SkipWhile(s, ActionInputEnd(s, j), Whitespace)
             IN  [matched |-> TRUE, group1 |-> SubSeq(s, g1, j - 1), group2 |-> From(s, g2)]

\* raise ValueError(f"Could not parse LLM output: ...") with llm_output between grave accents
ParseValueError(text) ==
    [kind |-> "ValueError", output |-> FALSE, tool |-> << >>, tool_input |-> << >>,
     log |-> << >>, msg |-> CouldNotParse \o text \o <<BackTick>>]

\* [][0] on an empty list
ParseIndexError ==
    [kind |-> "IndexError", output |-> FALSE, tool |-> << >>, tool_input |-> << >>,
     log |-> << >>, msg |-> << >>]

AgentFinish(output, log) ==
    [kind |-> "AgentFinish", output |-> output, tool |-> << >>, tool_input |-> << >>,
     log |-> log, msg |-> << >>]

AgentAction(tool, tool_input, log) ==
    [kind |-> "AgentAction", output |-> FALSE, tool |-> tool, tool_input |-> tool_input,
     log |-> log, msg |-> << >>]

\* the mutant of CleanToolInput: removes one surrounding pair of quotes only
CleanToolInput_OnePair(action_input) ==
    LET t == StripChars(action_input, {" "})
    IN  IF Len(t) >= 2 /\ t[1] = "\"" /\ t[Len(t)] = "\""
        THEN SubSeq(t, 2, Len(t) - 1)
        ELSE t

\* action_input.strip(" ").strip('"')
CleanToolInput(action_input) == StripChars(StripChars(action_input, {" "}), {"\""})

\* the mutant of IsTruthy: "true" dropped from the list
IsTruthy_NoTrue(output) == output \in TruthySpellings_NoTrue

\* output in ["true", "yes", 'y']
IsTruthy(output) == output \in TruthySpellings

parse(text) ==
    IF Contains(text, FinalAnswerMarker)
    THEN LET parts  == Split(text, FinalAnswerMarker)
             tokens == SplitWS(parts[Len(parts)])
         IN  IF tokens = << >>
             THEN ParseIndexError
             ELSE LET output == Lower(Strip(tokens[1]))
                  IN  IF output \notin BoolSpellings
                      THEN ParseValueError(text)
                      ELSE AgentFinish(IsTruthy(output), text)
    ELSE LET m == ActionRegexSearch(text)
         IN  IF ~m.matched
             THEN ParseValueError(text)
             ELSE AgentAction(Strip(m.group1), CleanToolInput(m.group2), text)

----------------------------------------------------------------------------
(* load_data_to_coder_globals and the namespaces *)

\* names a dataset may carry; "input" is also a name of the built-in namespace
Names == {"df", "input"}

Frames == {"frame_a", "frame_b"}

Unbound == "unbound"

\* __builtins__ restricted to Names
Builtins == [n \in Names |-> IF n = "input" THEN "builtin_input" ELSE Unbound]

\* data_loader.table_dict: a dataframe for some of the names
TableDicts == [Names -> Frames \cup {Unbound}] \ {[n \in Names |-> Unbound]}

NoTables == [n \in Names |-> Unbound]

\* dict.update(other), and the loop  globals()[name] = df
DictUpdate(d, other) == [n \in Names |-> IF other[n] # Unbound THEN other[n] ELSE d[n]]

\* exec_globals = globals().copy(); exec_globals.update(__builtins__)
ExecGlobals(g) == DictUpdate(g, Builtins)

----------------------------------------------------------------------------
(* CustomPythonAstREPLTool._run *)

\* the mutant of GateClosed: an off-by-one comparison
GateClosed_Strict(turns) == turns > MAX_TURNS

\* self.max_turns >= MAX_TURNS
GateClosed(turns) == turns >= MAX_TURNS

\* the mutant of Consume: the increment forgotten
Consume_Forgotten(turns) == turns

\* self.max_turns += 1
Consume(turns) == turns + 1

\* re.search(r"(3 grave accents)(.*?)(3 grave accents)", query, re.DOTALL): leftmost opening
\* fence that has a closing fence after it, lazy group
FenceSearch(query) ==
    LET starts == { i \in 1..Len(query) :
                      LitAt(query, i, Fence) /\ FindFrom(query, Fence, i + Len(Fence)) # {} }
    IN  IF starts = {}
        THEN [matched |-> FALSE, group1 |-> << >>]
        ELSE LET i == SetMin(starts)
                 j == SetMin(FindFrom(query, Fence, i + Len(Fence)))
             IN  [matched |-> TRUE, group1 |-> SubSeq(query, i + Len(Fence), j - 1)]

\* lines 136-150: the code handed to exec
CodeToRun(query) ==
    LET m  == FenceSearch(query)
        c0 == Strip(IF m.matched THEN m.group1 ELSE query)
        c1 == IF StartsWith(c0, TripleQuote) THEN LStrip(From(c0, Len(TripleQuote) + 1)) ELSE c0
        c2 == IF EndsWith(c1, TripleQuote)
              THEN RStrip(SubSeq(c1, 1, Len(c1) - Len(TripleQuote))) ELSE c1
        c3 == IF StartsWith(c2, PythonTag) THEN LStrip(From(c2, Len(PythonTag) + 1)) ELSE c2
    IN  ImportPandas \o c3

\* the io.StringIO created by an executing call
OutputCapture == "output_capture"

\* what one write of the executed code puts on its stream
WriteText(stream) ==
    CASE stream = "stdout" -> <<"2", "\n">>
      [] stream = "stderr" -> <<"w", "a", "r", "n", "\n">>
      [] stream = "log"    -> <<"I", "N", "F", "O", ":", "r", "o", "o", "t", ":", "m", "\n">>

\* output_capture.getvalue(): the writes whose stream is routed to the capture buffer
RECURSIVE Captured(_, _)
Captured(writes, route) ==
    IF writes = << >>
    THEN << >>
    ELSE (IF route[Head(writes)] = OutputCapture THEN WriteText(Head(writes)) ELSE << >>)
         \o Captured(Tail(writes), route)

\* lines 156-157: both redirects entered and the root handler's stream assigned
RouteDuringExec(out, err, log) ==
    [stdout |-> OutputCapture, stderr |-> OutputCapture, log |-> OutputCapture]

\* lines 156-162 on leaving the with block: contextlib restores sys.stdout and
\* sys.stderr; nothing assigns the handler's stream again
RouteAfterExec(out, err, log) ==
    [stdout |-> out, stderr |-> err, log |-> RouteDuringExec(out, err, log).log]

\* the mutant of Caught: the except clause does not match
Caught_Never(raises) == FALSE

\* except Exception as e
Caught(raises) == raises = "Exception"

\* the mutant of OutputOrDefault: the captured text returned as it is
OutputOrDefault_Raw(output) == output

\* output if output else "Execution completed without output."
OutputOrDefault(output) == IF output # << >> THEN output ELSE NoOutputMessage

NoCall ==
    [index |-> 0, query |-> << >>, ran |-> FALSE, code |-> << >>, writes |-> << >>,
     raises |-> "none", msg |-> << >>, returned |-> FALSE, result |-> << >>,
     turns_before |-> 0,
     pre  |-> [stdout |-> "", stderr |-> "", log |-> ""],
     post |-> [stdout |-> "", stderr |-> "", log |-> ""],
     exec_globals |-> NoTables]

\* _run(query) on the tool instance; beh is what the executed code does: the streams it
\* writes to in order, how it ends, and str(e) of what it raises
Run(query, beh) ==
    LET pre == [stdout |-> sys_stdout, stderr |-> sys_stderr, log |-> log_stream]
    IN  /\ n_calls' = n_calls + 1
        /\ prev_raised' = last.raises
        /\ IF GateClosed(max_turns)
           THEN /\ last' = [NoCall EXCEPT !.index = n_calls + 1, !.query = query,
                                          !.returned = TRUE, !.result = GateMessage,
                                          !.turns_before = max_turns,
                                          !.pre = pre, !.post = pre]
                /\ UNCHANGED <<max_turns, sys_stdout, sys_stderr, log_stream, n_exec>>
           ELSE LET during == RouteDuringExec(sys_stdout, sys_stderr, log_stream)
                    after  == RouteAfterExec(sys_stdout, sys_stderr, log_stream)
                    output == Captured(beh.writes, during)
                IN  /\ max_turns' = Consume(max_turns)
                    /\ n_exec' = n_exec + 1
                    /\ sys_stdout' = after.stdout
                    /\ sys_stderr' = after.stderr
                    /\ log_stream' = after.log
                    /\ last' = [index |-> n_calls + 1, query |-> query, ran |-> TRUE,
                                code |-> CodeToRun(query), writes |-> beh.writes,
                                raises |-> beh.raises, msg |-> beh.msg,
                                returned |-> (beh.raises = "none" \/ Caught(beh.raises)),
                                result |-> IF beh.raises = "none" THEN OutputOrDefault(output)
                                           ELSE IF Caught(beh.raises) THEN beh.msg
                                           ELSE << >>,
                                turns_before |-> max_turns,
                                pre |-> pre, post |-> after,
                                exec_globals |-> ExecGlobals(module_globals)]

----------------------------------------------------------------------------
(* Bounds of the inputs *)

\* spaces between a colon and what follows it
MaxPad == 1

\* double-quote characters on either side of an Action Input
MaxQuotes == 2

\* triple-double-quote sequences on either side of the code of a query
MaxTriple == 1

\* writes the executed code makes
MaxWrites == 1

\* _run calls on the tool instance
MaxCalls == 3

----------------------------------------------------------------------------
(* Inputs *)

\* s repeated k times
Repeat(s, k) == [i \in 1..(k * Len(s)) |-> s[((i - 1) % Len(s)) + 1]]

Pads == { Repeat(<<" ">>, k) : k \in 0..MaxPad } \cup { <<"\n">> }

\* model texts with the Final Answer marker
FinalPrefixes ==
    { << >>,
      <<"x","\n">>,
      <<"F","i","n","a","l"," ","A","n","s","w","e","r",":"," ","T","r","u","e","\n">>,
      <<"F","i","n","a","l"," ","A","n","s","w","e","r",":"," ","n","o","\n">> }

FinalTokens ==
    { << >>, <<"T","r","u","e">>, <<"T","R","U","E">>, <<"t","r","u","e">>, <<"F","a","l","s","e">>, <<"f","a","l","s","e">>, <<"y","e","s">>, <<"n">>, <<"m","a","y","b","e">> }

FinalTrails == { << >>, <<".">>, <<"i","s","h">>, <<" ","o","k">>, <<"\n","o","k">> }

FinalTexts ==
    { pre \o FinalAnswerMarker \o pad \o tok \o trail :
        pre \in FinalPrefixes, pad \in Pads, tok \in FinalTokens, trail \in FinalTrails }

\* model texts shaped like an Action / Action Input pair
ActionPrefixes == { << >>, <<"x","\n">> }

ActionHeads == { <<"A","c","t","i","o","n">>, <<"A","c","t","i","o","n"," ","1"," ">>, <<"a","c","t","i","o","n">> }

ActionNames == { <<" ","F","o","o">>, <<"\t","F","o","o"," ","\n">> }

ActionMids ==
    { <<"\n","A","c","t","i","o","n"," ","I","n","p","u","t">>, <<"\n","A","c","t","i","o","n","2"," ","I","n","p","u","t"," ","3","\n">>, <<" ","A","c","t","i","o","n"," ","I","n","p","u","t">>, <<"\n","A","c","t","i","o","n"," ","i","n","p","u","t">> }

ActionBodies == { <<"b","a","r">> }

ActionTrails == { << >>, <<" ">>, <<"\n">> }

ActionTexts ==
    { pre \o head \o ColonLit \o name \o mid \o ColonLit \o pad
          \o Repeat(<<"\"">>, a) \o body \o Repeat(<<"\"">>, b) \o trail :
        pre \in ActionPrefixes, head \in ActionHeads, name \in ActionNames,
        mid \in ActionMids, pad \in Pads, a \in 0..MaxQuotes, body \in ActionBodies,
        b \in 0..MaxQuotes, trail \in ActionTrails }

OtherTexts == { << >>, <<"x">>, <<"A","c","t","i","o","n",":"," ","F","o","o">>, <<"F","i","n","a","l"," ","A","n","s","w","e","r">> }

ParseTexts == FinalTexts \cup ActionTexts \cup OtherTexts

\* queries given to the tool
QueryPads == { << >>, <<" ","\n">> }

QueryTags == { << >>, <<"p","y","t","h","o","n","\n">>, <<"p","y","t","h","o","n"," ">>, <<"p","y","t","h","o","n">>, <<"P","y","t","h","o","n","\n">> }

QueryBody == <<"_","v","=","1">>

QueryInners ==
    { pad \o Repeat(TripleQuote, a) \o tag \o QueryBody \o Repeat(TripleQuote, b) \o pad :
        pad \in QueryPads, a \in 0..MaxTriple, tag \in QueryTags, b \in 0..MaxTriple }

ToolQueries ==
    UNION { { inner,
              Fence \o inner \o Fence,
              <<"x">> \o Fence \o inner \o Fence \o <<"y">> \o Fence \o <<"z">> \o Fence,
              Fence \o inner } : inner \in QueryInners }

\* what the executed code may do
Streams == {"stdout", "stderr", "log"}

WriteSeqs == UNION { [1..k -> Streams] : k \in 0..MaxWrites }

Endings ==
    { [raises |-> "none", msg |-> << >>],
      [raises |-> "Exception", msg |-> <<"b","o","o","m">>],
      [raises |-> "Exception", msg |-> << >>],
      [raises |-> "BaseException", msg |-> << >>] }

Behaviours == { [writes |-> w, raises |-> e.raises, msg |-> e.msg] : w \in WriteSeqs, e \in Endings }

\* code that writes nothing: it ends normally or raises
QuietBehaviours == { b \in Behaviours : b.writes = << >> /\ b.raises \in {"none", "Exception"} }

\* a few whole queries, for the runs that vary what the code does
BasicQueries ==
    { <<"p","r","i","n","t","(","1","+","1",")">>,
      Fence \o <<"p","y","t","h","o","n","\n","p","r","i","n","t","(","1","+","1",")","\n">> \o Fence,
      TripleQuote \o <<"p","y","t","h","o","n","_","v","=","1">> \o TripleQuote }

\* the texts the model produces in an agent run
ToolName == <<"p","y","t","h","o","n","_","r","e","p","l","_","a","s","t">>

AgentQueries ==
    { <<"p","r","i","n","t","(","1","+","1",")">>,
      Fence \o <<"p","y","t","h","o","n","\n","p","r","i","n","t","(","1","+","1",")","\n">> \o Fence,
      <<"\"","p","y","t","h","o","n","_","v","=","1","\"">> }

AgentTexts ==
    { FinalAnswerMarker \o <<" ">> \o tok : tok \in FinalTokens }
    \cup { <<"A","c","t","i","o","n",":">> \o name \o <<"\n","A","c","t","i","o","n"," ","I","n","p","u","t",":"," ">> \o q :
             name \in { <<" ">> \o ToolName, <<" ","F","o","o">> }, q \in AgentQueries }
    \cup OtherTexts

----------------------------------------------------------------------------
(* The operations *)

NotParsed ==
    [kind |-> "none", output |-> FALSE, tool |-> << >>, tool_input |-> << >>,
     log |-> << >>, msg |-> << >>]

\* the tool instance, the module and the process after import and construction
ToolInit ==
    /\ max_turns = 0
    /\ module_globals = NoTables
    /\ loaded = NoTables
    /\ sys_stdout = "stdout"
    /\ sys_stderr = "stderr"
    /\ log_stream = "stderr"
    /\ last = NoCall
    /\ prev_raised = "none"
    /\ n_calls = 0
    /\ n_exec = 0

\* load_data_to_coder_globals(data_loader), once, before any call of the tool
LoadData(table_dict) ==
    /\ loaded = NoTables
    /\ n_calls = 0
    /\ module_globals' = DictUpdate(module_globals, table_dict)
    /\ loaded' = table_dict
    /\ UNCHANGED <<pc, llm_output, parsed, max_turns, sys_stdout, sys_stderr, log_stream,
                   last, prev_raised, n_calls, n_exec>>

\* the agent hands the model's text to the parser
LLMOutput(text) ==
    /\ pc = "llm"
    /\ llm_output' = text
    /\ parsed' = NotParsed
    /\ pc' = "parse"
    /\ UNCHANGED <<max_turns, module_globals, loaded, sys_stdout, sys_stderr, log_stream,
                   last, prev_raised, n_calls, n_exec>>

\* output_parser.parse(llm_output); an exception ends the run
ParseStep ==
    /\ pc = "parse"
    /\ parsed' = parse(llm_output)
    /\ pc' = CASE parsed'.kind = "AgentFinish" -> "finished"
               [] parsed'.kind = "AgentAction" -> "act"
               [] OTHER -> "failed"
    /\ UNCHANGED <<llm_output, max_turns, module_globals, loaded, sys_stdout, sys_stderr,
                   log_stream, last, prev_raised, n_calls, n_exec>>

\* the executor runs the one registered tool on the parsed tool input
CallTool(beh) ==
    /\ pc = "act"
    /\ parsed.tool = ToolName
    /\ n_calls < MaxCalls
    /\ Run(parsed.tool_input, beh)
    /\ pc' = IF last'.returned THEN "llm" ELSE "failed"
    /\ UNCHANGED <<llm_output, parsed, module_globals, loaded>>

\* the parsed tool name is not the registered tool: the tool is not called
InvalidTool ==
    /\ pc = "act"
    /\ parsed.tool # ToolName
    /\ pc' = "llm"
    /\ UNCHANGED <<llm_output, parsed, max_turns, module_globals, loaded, sys_stdout,
                   sys_stderr, log_stream, last, prev_raised, n_calls, n_exec>>

\* _run called directly on the tool instance
DirectRun(query, beh) ==
    /\ pc = "tool"
    /\ n_calls < MaxCalls
    /\ Run(query, beh)
    /\ UNCHANGED <<pc, llm_output, parsed, module_globals, loaded>>

----------------------------------------------------------------------------
(* Specifications *)

\* an agent run: create_agent's executor drives model text -> parse -> tool, one call at a time
Init ==
    /\ pc = "llm"
    /\ llm_output = << >>
    /\ parsed = NotParsed
    /\ ToolInit

Next ==
    \/ \E text \in AgentTexts : LLMOutput(text)
    \/ ParseStep
    \/ \E beh \in Behaviours : CallTool(beh)
    \/ InvalidTool

Spec == Init /\ [][Next]_vars

\* the parser applied to one model text
InitParse ==
    /\ pc = "parse"
    /\ llm_output \in ParseTexts
    /\ parsed = NotParsed
    /\ ToolInit

NextParse == ParseStep

SpecParse == InitParse /\ [][NextParse]_vars

\* the datasets loaded, then the tool called directly with any queries
InitTool ==
    /\ pc = "tool"
    /\ llm_output = << >>
    /\ parsed = NotParsed
    /\ ToolInit

NextTool ==
    \/ \E table_dict \in TableDicts : LoadData(table_dict)
    \/ \E query \in BasicQueries, beh \in Behaviours : DirectRun(query, beh)

SpecTool == InitTool /\ [][NextTool]_vars

\* the tool called directly with every shape of query, running code that writes nothing
NextCode == \E query \in ToolQueries, beh \in QuietBehaviours : DirectRun(query, beh)

SpecCode == InitTool /\ [][NextCode]_vars

----------------------------------------------------------------------------
(* The gate *)

\* C1: on one tool instance only the first _run call runs code; every later call, whatever
\* its query, returns the gate message verbatim, runs nothing and leaves max_turns as it was.
C1_OnlyFirstCallRuns ==
    /\ last.index = 1 => last.ran
    /\ last.index > 1 =>
         /\ ~last.ran
         /\ last.code = << >>
         /\ last.returned
         /\ last.result = GateMessage
         /\ max_turns = last.turns_before
    /\ n_exec <= 1

\* a third call, with a fenced query, answered by the gate message
C1_Witness ==
    /\ last.index = 3
    /\ StartsWith(last.query, Fence)
    /\ last.result = GateMessage
    /\ n_exec = 1

\* C2: in an agent run max_turns is an integer in 0..MAX_TURNS, it never decreases, and the
\* number of exec() calls made equals it, so a run executes code at most once.
C2_CounterBounded ==
    /\ [](max_turns \in 0..MAX_TURNS /\ n_exec = max_turns)
    /\ [][max_turns' >= max_turns]_vars

\* a run that executed code, was refused a second execution and then finished
C2_Witness ==
    /\ pc = "finished"
    /\ n_calls >= 2
    /\ max_turns = MAX_TURNS
    /\ n_exec = 1

\* C3: when the code of the first call raises an Exception, _run returns str(e) as its
\* result instead of propagating, the attempt is consumed, and the next call gets the gate
\* message.
C3_ErrorConsumesAttempt ==
    /\ (last.ran /\ last.raises = "Exception") =>
         /\ last.returned
         /\ last.result = last.msg
         /\ max_turns = last.turns_before + 1
         /\ GateClosed(max_turns)
    /\ prev_raised = "Exception" => (~last.ran /\ last.returned /\ last.result = GateMessage)

\* the call after one whose code raised "boom": refused
C3_Witness ==
    /\ prev_raised = "Exception"
    /\ last.index = 2
    /\ last.result = GateMessage
    /\ max_turns = 1

----------------------------------------------------------------------------
(* Output capture *)

\* C4: after _run returns, on any path, sys.stdout, sys.stderr and the root log handler's
\* stream are what they were before the call.
C4_RoutingRestored ==
    last.index > 0 =>
        /\ sys_stdout = last.pre.stdout
        /\ sys_stderr = last.pre.stderr
        /\ log_stream = last.pre.log

\* every write of the code, in order, whatever its stream
RECURSIVE AllWritten(_)
AllWritten(writes) ==
    IF writes = << >> THEN << >> ELSE WriteText(Head(writes)) \o AllWritten(Tail(writes))

\* C5 as stated: code that writes nothing to stdout or stderr gets the fixed "no output"
\* literal, never the empty string; code that ends normally and wrote gets the captured text.
C5_Original ==
    /\ (last.ran /\ \A k \in 1..Len(last.writes) : last.writes[k] \notin {"stdout", "stderr"}) =>
         /\ last.returned
         /\ last.result = NoOutputMessage
         /\ last.result # << >>
    /\ (last.ran /\ last.raises = "none" /\ last.writes # << >>) =>
         last.result = AllWritten(last.writes)

\* C5 amended: for code that ends without raising: when it wrote nothing to stdout, stderr
\* or the root logger the result is the fixed "no output" literal, never the empty string;
\* when it wrote, the result is exactly the captured text.
C5_NoOutputLiteral ==
    (last.ran /\ last.raises = "none") =>
        /\ last.returned
        /\ last.result # << >>
        /\ last.result = IF last.writes = << >> THEN NoOutputMessage ELSE AllWritten(last.writes)

\* silent code that ended normally
C5_Witness ==
    /\ last.ran
    /\ last.raises = "none"
    /\ last.writes = << >>
    /\ last.result = NoOutputMessage

----------------------------------------------------------------------------
(* The parser *)

\* the first whitespace-delimited token after the last marker, << >> when there is none
TokenAfterLastMarker(text) ==
    LET p == SetMax(FindFrom(text, FinalAnswerMarker, 1)) + Len(FinalAnswerMarker)
        b == SkipWhile(text, p, Whitespace)
        e == SkipWhile(text, b, { text[k] : k \in 1..Len(text) } \ Whitespace)
    IN  SubSeq(text, b, e - 1)

\* text holds  Final Answer: <word>  with the word in any letter case
SaysFinalAnswer(text, word) ==
    \E i \in 1..Len(text) :
        /\ LitAt(text, i, FinalAnswerMarker \o <<" ">>)
        /\ i + Len(FinalAnswerMarker) + Len(word) <= Len(text)
        /\ Lower(SubSeq(text, i + Len(FinalAnswerMarker) + 1,
                        i + Len(FinalAnswerMarker) + Len(word))) = word

\* C6 as stated: any text containing  Final Answer: True  (any case, any trailing text)
\* parses to verdict true, any text containing  Final Answer: false  to verdict false,
\* the log being the whole text.
C6_Original ==
    /\ (parsed.kind # "none" /\ SaysFinalAnswer(llm_output, <<"t","r","u","e">>)) =>
         parsed = AgentFinish(TRUE, llm_output)
    /\ (parsed.kind # "none" /\ SaysFinalAnswer(llm_output, <<"f","a","l","s","e">>)) =>
         parsed = AgentFinish(FALSE, llm_output)

\* C6 amended: when the first whitespace-delimited token after the LAST  Final Answer:
\* marker is "true" in any letter case the result is a Final Answer with verdict true, when
\* it is "false" a Final Answer with verdict false; the log is the whole text.
C6_VerdictOfLastToken ==
    (parsed.kind # "none" /\ Contains(llm_output, FinalAnswerMarker)) =>
        /\ Lower(TokenAfterLastMarker(llm_output)) = <<"t","r","u","e">> =>
             parsed = AgentFinish(TRUE, llm_output)
        /\ Lower(TokenAfterLastMarker(llm_output)) = <<"f","a","l","s","e">> =>
             parsed = AgentFinish(FALSE, llm_output)

\* an earlier  Final Answer: no  overridden by a later upper-case TRUE with trailing text
C6_Witness ==
    /\ parsed.kind = "AgentFinish"
    /\ parsed.output = TRUE
    /\ parsed.log = llm_output
    /\ StartsWith(llm_output, <<"F","i","n","a","l"," ","A","n","s","w","e","r",":"," ","n","o","\n">>)
    /\ TokenAfterLastMarker(llm_output) = <<"T","R","U","E">>
    /\ EndsWith(llm_output, <<" ","o","k">>)

\* C7: parse returns a Final Answer or a Tool Invocation or fails with the ValueError that
\* carries the raw text, and in no other way; a marker with no recognized boolean token
\* after the last marker (nothing at all included) fails with that ValueError, and so does
\* a text with neither the marker nor the Action / Action Input pair.
C7_TotalUpToParseError ==
    parsed.kind # "none" =>
        /\ parsed.kind \in {"AgentFinish", "AgentAction", "ValueError"}
        /\ parsed.kind = "ValueError" => parsed.msg = CouldNotParse \o llm_output \o <<BackTick>>
        /\ ( /\ Contains(llm_output, FinalAnswerMarker)
             /\ Lower(TokenAfterLastMarker(llm_output)) \notin BoolSpellings )
           => parsed.kind = "ValueError"
        /\ ( /\ ~Contains(llm_output, FinalAnswerMarker)
             /\ ~ActionRegexSearch(llm_output).matched )
           => parsed.kind = "ValueError"

\* t is s without its leading and trailing characters from chars
IsTrimOf(t, s, chars) ==
    /\ t # << >> => (t[1] \notin chars /\ t[Len(t)] \notin chars)
    /\ \E a \in 0..(Len(s) - Len(t)) :
         /\ SubSeq(s, a + 1, a + Len(t)) = t
         /\ \A k \in 1..a : s[k] \in chars
         /\ \A k \in (a + Len(t) + 1)..Len(s) : s[k] \in chars

\* s, or s without its first and last character when both are double quotes
WithoutOneQuotePair(s) ==
    IF Len(s) >= 2 /\ s[1] = "\"" /\ s[Len(s)] = "\"" THEN SubSeq(s, 2, Len(s) - 1) ELSE s

\* the text has no marker and matches the Action / Action Input pattern, and was parsed
ParsedActionPair ==
    /\ parsed.kind # "none"
    /\ ~Contains(llm_output, FinalAnswerMarker)
    /\ ActionRegexSearch(llm_output).matched

\* C8 as stated: the tool input is the second captured region with leading/trailing spaces
\* removed and exactly one surrounding pair of double quotes removed when present.
C8_Original ==
    ParsedActionPair =>
        LET m == ActionRegexSearch(llm_output)
        IN  /\ parsed.kind = "AgentAction"
            /\ IsTrimOf(parsed.tool, m.group1, Whitespace)
            /\ \E mid \in { SubSeq(m.group2, i, j) : i \in 1..(Len(m.group2) + 1),
                                                     j \in 0..Len(m.group2) } :
                 /\ IsTrimOf(mid, m.group2, {" "})
                 /\ parsed.tool_input = WithoutOneQuotePair(mid)
            /\ parsed.log = llm_output

\* C8 amended: the tool name is the first captured region without surrounding whitespace;
\* the tool input is the second captured region with leading/trailing spaces removed and
\* then ALL leading and all trailing double-quote characters removed; the log is the whole
\* text.
C8_ToolInvocation ==
    ParsedActionPair =>
        LET m == ActionRegexSearch(llm_output)
        IN  /\ parsed.kind = "AgentAction"
            /\ IsTrimOf(parsed.tool, m.group1, Whitespace)
            /\ \E mid \in { SubSeq(m.group2, i, j) : i \in 1..(Len(m.group2) + 1),
                                                     j \in 0..Len(m.group2) } :
                 /\ IsTrimOf(mid, m.group2, {" "})
                 /\ IsTrimOf(parsed.tool_input, mid, {"\""})
            /\ parsed.log = llm_output

\* Action: Foo / Action Input: ""bar"" : both quotes of each side go
C8_Witness ==
    /\ parsed.kind = "AgentAction"
    /\ parsed.tool = <<"F","o","o">>
    /\ parsed.tool_input = <<"b","a","r">>
    /\ EndsWith(llm_output, <<"A","c","t","i","o","n"," ","I","n","p","u","t",":"," ","\"","\"","b","a","r","\"","\"">>)

----------------------------------------------------------------------------
(* The code that is run and its namespace *)

\* the derivation as C9 words it: the python tag goes only when whitespace follows it
ClaimedCodeToRun(query) ==
    LET m  == FenceSearch(query)
        c0 == Strip(IF m.matched THEN m.group1 ELSE query)
        c1 == IF StartsWith(c0, TripleQuote) THEN LStrip(From(c0, Len(TripleQuote) + 1)) ELSE c0
        c2 == IF EndsWith(c1, TripleQuote)
              THEN RStrip(SubSeq(c1, 1, Len(c1) - Len(TripleQuote))) ELSE c1
        c3 == IF /\ StartsWith(c2, PythonTag)
                 /\ Len(c2) > Len(PythonTag)
                 /\ c2[Len(PythonTag) + 1] \in Whitespace
              THEN LStrip(From(c2, Len(PythonTag) + 1)) ELSE c2
    IN  ImportPandas \o c3

\* C9: the code run is the first fenced region (else the whole query), trimmed, less one
\* leading and one trailing triple quote, less a leading "python" only when whitespace
\* follows it, with the pandas import put in front; python_version-like code is untouched.
C9_CodeDerivation ==
    last.ran => last.code = ClaimedCodeToRun(last.query)

\* C10: after load_data_to_coder_globals, every dataset name of the mapping is bound to its
\* dataset in the namespace exec gets.
C10_DatasetsVisible ==
    last.ran => \A n \in Names : loaded[n] # Unbound => last.exec_globals[n] = loaded[n]

====
